---- MODULE Spec2Model ----
(***************************************************************************)
(* Model of VQESolver (qsdk/electronic_structure_solvers/vqe_solver.py).   *)
(*                                                                         *)
(* The solver object is its attribute table (self.__dict__): a function    *)
(* from attribute names to values.  An attribute that was never assigned   *)
(* is absent from the table's domain, and reading it is Python's           *)
(* AttributeError.  Optional values (None or a value) are sequences of     *)
(* length 0 or 1.  Every public method is one action; its outcome (the     *)
(* exception raised, the value returned) is recorded in ret.               *)
(***************************************************************************)
EXTENDS Integers, Sequences, FiniteSets, TLC

\* Longest fermionic Hamiltonian (number of iterated term keys) drawn as input.
MaxTerms == 3
\* Longest option dictionary handed to the constructor in SpecInit.
MaxOpts == 2
\* Variational parameter vectors are identified by 0..MaxParam.
MaxParam == 1
\* build() is called at most MaxBuilds times on one ansatz object.
MaxBuilds == 2

VARIABLES
    opt_dict,   \* the caller's option dictionary: a sequence of <<key, value>> in insertion order
    solver,     \* self.__dict__ of the object __init__ last ran on
    instance,   \* TRUE iff the constructor call returned that object to the caller
    ret,        \* outcome of the last call
    rdm         \* what the last get_rdm call did: its arrays, its per-term log, its evaluations

vars == <<opt_dict, solver, instance, ret, rdm>>

None == <<>>
Some(v) == <<v>>

Params == 0..MaxParam

----------------------------------------------------------------------------
(* Values of the options *)

\* A member of the Ansatze enumeration (lines 19-23); every Enum member is truthy.
AnsatzEnum(name) ==
    [kind |-> "enum", name |-> name, n_params |-> 0, var_params |-> None,
     circuit_builds |-> 0]

\* An object of a subclass of Ansatz; var_params and circuit_builds are the
\* object's own state, changed by set_var_params / update_var_params / build_circuit.
AnsatzObject(name, n) ==
    [kind |-> "object", name |-> name, n_params |-> n, var_params |-> None,
     circuit_builds |-> 0]

\* Values that are neither: None (falsy) and a string (truthy).
AnsatzNone == [kind |-> "none", name |-> "None", n_params |-> 0, var_params |-> None,
               circuit_builds |-> 0]
AnsatzStr == [kind |-> "str", name |-> "uccsd", n_params |-> 0, var_params |-> None,
              circuit_builds |-> 0]

default_backend_options ==
    [k \in {"target", "n_shots", "noise_model"} |->
        IF k = "target" THEN "qulacs" ELSE "None"]

DefaultKeys ==
    {"molecule", "mean_field", "frozen_orbitals", "qubit_mapping", "ansatz",
     "optimizer", "initial_var_params", "backend_options", "up_then_down", "verbose"}

default_options ==
    [k \in DefaultKeys |->
        CASE k = "molecule" -> None
          [] k = "mean_field" -> None
          [] k = "frozen_orbitals" -> <<>>
          [] k = "qubit_mapping" -> "jw"
          [] k = "ansatz" -> AnsatzEnum("UCCSD")
          [] k = "optimizer" -> "_default_optimizer"
          [] k = "initial_var_params" -> None
          [] k = "backend_options" -> default_backend_options
          [] k = "up_then_down" -> FALSE
          [] k = "verbose" -> FALSE]

\* setattr(self, k, v), also the plain assignment self.k = v
SetAttr(tbl, k, v) == [a \in DOMAIN tbl \cup {k} |-> IF a = k THEN v ELSE tbl[a]]

HasAttr(tbl, k) == k \in DOMAIN tbl

----------------------------------------------------------------------------
(* __init__ *)

NoRet == [op |-> "", raised |-> "", msg |-> "", value |-> None, requested |-> "",
          checked |-> FALSE, result_x |-> None]

Ret(op, raised, msg) == [NoRet EXCEPT !.op = op, !.raised = raised, !.msg = msg]

\* Faulty variant: one defaults table shared by all calls, which keeps what the
\* previous call wrote into it.
InitStartShared(prev) ==
    IF DefaultKeys \subseteq DOMAIN prev THEN [k \in DefaultKeys |-> prev[k]]
    ELSE default_options
\* The table __init__ starts from: the defaults, made anew by every call
\* (prev is the table the previous call left behind).
InitStart(prev) == default_options

\* The key a rejected dictionary is reported with.
KeyErrorKey(d, i) == d[i][1]

\* The loop of lines 65-69 from entry i on, over table tbl.
RECURSIVE InitLoop(_, _, _)
InitLoop(d, i, tbl) ==
    IF i > Len(d) THEN [tbl |-> tbl, raised |-> "", msg |-> ""]
    ELSE IF d[i][1] \in DOMAIN default_options
         THEN InitLoop(d, i + 1, SetAttr(tbl, d[i][1], d[i][2]))
         ELSE [tbl |-> tbl, raised |-> "KeyError", msg |-> KeyErrorKey(d, i)]

\* The whole of __init__ on dictionary d: the object's table and how the call ended.
InitResult(d, prev) ==
    LET loop == InitLoop(d, 1, InitStart(prev)) IN
    IF loop.raised # "" THEN loop
    ELSE IF loop.tbl["molecule"] = None
         THEN [tbl |-> loop.tbl, raised |-> "ValueError", msg |-> "molecule"]
         ELSE [tbl |-> SetAttr(SetAttr(SetAttr(loop.tbl,
                                "optimal_energy", None),
                                "optimal_var_params", None),
                                "builtin_ansatze", {"UCCSD", "UCC1", "UCC3"}),
               raised |-> "", msg |-> ""]

NoRdm == [returned |-> FALSE, tmp_hamiltonian |-> None, rdm1 |-> <<>>, rdm2 |-> <<>>,
          log |-> <<>>, evals |-> <<>>]

----------------------------------------------------------------------------
(* The fermionic Hamiltonian and its qubit form *)

\* Term keys: tuples of <<spin-orbital index, action>>, action 1 = creation,
\* 0 = annihilation; length 0 (constant), 2 (one-body) or 4 (two-body).
OneBody(p, q) == << <<p, 1>>, <<q, 0>> >>
TwoBody(p, q, r, s) == << <<p, 1>>, <<q, 1>>, <<r, 0>>, <<s, 0>> >>

\* The keys Hamiltonians are drawn from: the constant, a one-body term, two
\* two-body keys that denote the same operator (orbital indices 0,1,0,1 and
\* 1,0,1,0) and a third that denotes its negative (orbital indices 0,1,1,0).
TermKeys ==
    { <<>>, OneBody(0, 2),
      TwoBody(0, 2, 0, 2), TwoBody(2, 0, 2, 0), TwoBody(0, 2, 2, 0) }

\* A Hamiltonian is the sequence of its <<key, coefficient>> in iteration order.
HamOf(keys) == [i \in 1..Len(keys) |-> <<keys[i], i + 1>>]

KeySeqs ==
    { ks \in UNION { [1..n -> TermKeys] : n \in 0..MaxTerms } :
        \A i, j \in 1..Len(ks) : i # j => ks[i] # ks[j] }

Molecule(name, nq, ne, keys) ==
    [name |-> name, n_qubits |-> nq, n_electrons |-> ne, hamiltonian |-> HamOf(keys)]

\* A two-orbital (HOMO-LUMO) system and a one-orbital one.
MolH2 ==
    Molecule("H2", 4, 2, << <<>>, OneBody(0, 0), OneBody(3, 3),
                            TwoBody(0, 2, 0, 2), TwoBody(2, 0, 2, 0) >>)
MolHe ==
    Molecule("He", 2, 2, << <<>>, OneBody(0, 0), TwoBody(1, 0, 0, 1) >>)

AvailableMappings == {"jw", "bk"}

\* The operator a key denotes, in normal form with its sign: the two creation
\* operators anticommute, and so do the two annihilation operators.  sign 0 is
\* the zero operator.
Max2(a, b) == IF a >= b THEN a ELSE b
Min2(a, b) == IF a <= b THEN a ELSE b
NormalForm(key) ==
    IF Len(key) = 4 /\ key[1][2] = 1 /\ key[2][2] = 1 /\ key[3][2] = 0 /\ key[4][2] = 0
    THEN LET p == key[1][1]  q == key[2][1]  r == key[3][1]  s == key[4][1] IN
         [op   |-> TwoBody(Max2(p, q), Min2(p, q), Max2(r, s), Min2(r, s)),
          sign |-> (IF p = q THEN 0 ELSE IF p > q THEN 1 ELSE -1)
                   * (IF r = s THEN 0 ELSE IF r > s THEN 1 ELSE -1)]
    ELSE [op |-> key, sign |-> 1]

\* Sum of f[i] over 1..n.
RECURSIVE SumTo(_, _)
SumTo(f, n) == IF n = 0 THEN 0 ELSE f[n] + SumTo(f, n - 1)

\* fermion_to_qubit_mapping: a faithful linear encoding, so two Hamiltonians get
\* the same qubit terms exactly when they are the same operator.  terms maps each
\* operator in normal form to its summed coefficient (zero coefficients kept).
fermion_to_qubit_mapping(ham, mapping, n_spinorbitals, n_electrons, up_then_down) ==
    LET ops == { NormalForm(ham[i][1]).op :
                    i \in { j \in 1..Len(ham) : NormalForm(ham[j][1]).sign # 0 } } IN
    [mapping |-> mapping, up_then_down |-> up_then_down,
     terms |-> [o \in ops |->
        SumTo([i \in 1..Len(ham) |->
                 IF NormalForm(ham[i][1]).op = o
                 THEN NormalForm(ham[i][1]).sign * ham[i][2] ELSE 0], Len(ham))]]

\* QubitOperator.compress(): drop the terms whose coefficient is zero.
Compress(qh) ==
    [qh EXCEPT !.terms = [o \in {x \in DOMAIN qh.terms : qh.terms[x] # 0} |-> qh.terms[o]]]

\* count_qubits: one more than the highest index the operator acts on.
SetMax(S) ==
    IF S = {} THEN -1
    ELSE LET x == CHOOSE y \in S : \A z \in S : z <= y IN x
count_qubits(qh) ==
    1 + SetMax({ o[i][1] : <<o, i>> \in
                 { <<o2, i2>> \in (DOMAIN qh.terms) \X (1..4) : i2 <= Len(o2) } })

----------------------------------------------------------------------------
(* build *)

IsReduced(ansatz) == ansatz.kind = "enum" /\ ansatz.name \in {"UCC1", "UCC3"}

\* Faulty variant: the up_then_down check is missing.
ReducedAnsatzErrorNoOrderingCheck(tbl) ==
    IF ~IsReduced(tbl["ansatz"]) THEN ""
    ELSE IF tbl["qubit_mapping"] # "jw" THEN "Qubit mapping must be JW"
    ELSE IF count_qubits(tbl["qubit_hamiltonian"]) # 4
         THEN "The system must be reduced to a HOMO-LUMO problem"
    ELSE ""
\* The checks of lines 96-105, in their order; "" when they all pass.
ReducedAnsatzError(tbl) ==
    IF ~IsReduced(tbl["ansatz"]) THEN ""
    ELSE IF tbl["qubit_mapping"] # "jw" THEN "Qubit mapping must be JW"
    ELSE IF ~tbl["up_then_down"] THEN "Parameter up_then_down must be set to True"
    ELSE IF count_qubits(tbl["qubit_hamiltonian"]) # 4
         THEN "The system must be reduced to a HOMO-LUMO problem"
    ELSE ""

\* Lines 108-118: the ansatz after resolution, or the error.
ResolveAnsatz(ansatz) ==
    IF ansatz.kind = "enum"
    THEN [raised |-> "",
          ansatz |-> CASE ansatz.name = "UCCSD" -> AnsatzObject("UCCSD", 2)
                       [] ansatz.name = "UCC1" -> AnsatzObject("RUCC", 1)
                       [] ansatz.name = "UCC3" -> AnsatzObject("RUCC", 3)]
    ELSE IF ansatz.kind # "object"
         THEN [raised |-> "TypeError", ansatz |-> ansatz]
         ELSE [raised |-> "", ansatz |-> ansatz]

\* Ansatz.set_var_params: None gives the ansatz's default vector (vector 0).
set_var_params(ansatz, var_params) ==
    LET v == IF var_params = None THEN Some(0) ELSE var_params IN
    [ansatz EXCEPT !.var_params = v]

build_circuit(ansatz) == [ansatz EXCEPT !.circuit_builds = @ + 1]

\* Lines 124-125: the three subscripts are evaluated in this order.
BackendKeyOrder == <<"target", "n_shots", "noise_model">>
MissingBackendKey(opts) ==
    IF \A i \in 1..3 : BackendKeyOrder[i] \in DOMAIN opts THEN ""
    ELSE BackendKeyOrder[CHOOSE i \in 1..3 :
            /\ BackendKeyOrder[i] \notin DOMAIN opts
            /\ \A j \in 1..(i - 1) : BackendKeyOrder[j] \in DOMAIN opts]

BuildOut(tbl, raised, msg, checked) ==
    [tbl |-> tbl, raised |-> raised, msg |-> msg, checked |-> checked]

\* Lines 107-125 on table t (the Hamiltonians are in place).
BuildAnsatzAndBackend(t, checked) ==
    LET res == ResolveAnsatz(t["ansatz"]) IN
    IF res.raised # "" THEN BuildOut(t, res.raised, "Invalid ansatz dataype", checked)
    ELSE
    LET a1 == set_var_params(res.ansatz, t["initial_var_params"])
        a2 == build_circuit(a1)
        t1 == SetAttr(SetAttr(t, "ansatz", a2), "initial_var_params", a1.var_params)
        missing == MissingBackendKey(t1["backend_options"])
    IN IF missing # "" THEN BuildOut(t1, "KeyError", missing, checked)
       ELSE BuildOut(SetAttr(t1, "backend",
                        [k \in {"target", "n_shots", "noise_model"} |->
                            t1["backend_options"][k]]), "", "", checked)

\* The whole of build() on table tbl.
BuildResult(tbl) ==
    LET t1 == IF tbl["mean_field"] = None
              THEN SetAttr(tbl, "mean_field", Some("rhf")) ELSE tbl
        mol == t1["molecule"][1]
        t2 == SetAttr(t1, "qemist_molecule",
                      [n_qubits |-> mol.n_qubits, n_electrons |-> mol.n_electrons])
        t3 == SetAttr(t2, "fermionic_hamiltonian", mol.hamiltonian)
        checked == IsReduced(tbl["ansatz"])
    IN IF t3["qubit_mapping"] \notin AvailableMappings
       THEN BuildOut(t3, "ValueError", "Invalid mapping selection", FALSE)
       ELSE
       LET t4 == SetAttr(t3, "qubit_hamiltonian",
                    fermion_to_qubit_mapping(t3["fermionic_hamiltonian"],
                        t3["qubit_mapping"], mol.n_qubits, mol.n_electrons,
                        t3["up_then_down"]))
           err == ReducedAnsatzError(t4)
       IN IF err # "" THEN BuildOut(t4, "ValueError", err, checked)
          ELSE BuildAnsatzAndBackend(t4, checked)

----------------------------------------------------------------------------
(* The simulation backend and energy_estimation *)

\* Simulator.get_expectation_value for one operator under parameter vector p.
\* Energies are counted in half-units, so every expectation value is an even
\* number and 0.5 * energy is exact.
RECURSIVE IndexSum(_, _)
IndexSum(op, n) == IF n = 0 THEN 0 ELSE op[n][1] + IndexSum(op, n - 1)
ExpVal(op, p) == 2 * (1 + ((IndexSum(op, Len(op)) + Len(op) + p) % 3))

RECURSIVE Energy(_, _)
Energy(terms, p) ==
    IF DOMAIN terms = {} THEN 0
    ELSE LET o == CHOOSE x \in DOMAIN terms : TRUE IN
         terms[o] * ExpVal(o, p)
           + Energy([x \in DOMAIN terms \ {o} |-> terms[x]], p)

Half(e) == e \div 2

EstOut(tbl, raised, value) == [tbl |-> tbl, raised |-> raised, value |-> value]

\* energy_estimation(var_params) on table tbl (lines 148-165); fail: the backend
\* raises during this evaluation.
EnergyEstimation(tbl, p, fail) ==
    IF tbl["ansatz"].kind # "object" THEN EstOut(tbl, "AttributeError", None)
    ELSE
    LET t1 == SetAttr(tbl, "ansatz", [tbl["ansatz"] EXCEPT !.var_params = Some(p)]) IN
    IF ~HasAttr(t1, "backend") \/ ~HasAttr(t1, "qubit_hamiltonian")
    THEN EstOut(t1, "AttributeError", None)
    ELSE IF fail THEN EstOut(t1, "BackendError", None)
    ELSE EstOut(t1, "", Some(Energy(t1["qubit_hamiltonian"].terms, p)))

----------------------------------------------------------------------------
(* simulate and the optimizers *)

\* Faulty variant: the energy is not recorded.
RecordNoEnergy(tbl, x, fun) == SetAttr(tbl, "optimal_var_params", Some(x))
\* Lines 262-263: what _default_optimizer records.
RecordOptimum(tbl, x, fun) ==
    SetAttr(SetAttr(tbl, "optimal_var_params", Some(x)), "optimal_energy", Some(fun))

SimOut(tbl, raised, value, x) == [tbl |-> tbl, raised |-> raised, value |-> value, x |-> x]

\* _default_optimizer(func, var_params): scipy's minimize evaluates func at the
\* start vector and on from there, and ends at some vector x (result.x);
\* result.fun is func(x).  fail: the backend raises in the first evaluation.
DefaultOptimizer(tbl, x, fail) ==
    LET first == EnergyEstimation(tbl, tbl["initial_var_params"][1], fail) IN
    IF first.raised # "" THEN SimOut(first.tbl, first.raised, None, None)
    ELSE
    LET atx == EnergyEstimation(first.tbl, x, FALSE)
    IN SimOut(RecordOptimum(atx.tbl, x, atx.value[1]), "", atx.value, Some(x))

\* A user-supplied optimizer that honours the calling convention (two arguments,
\* a scalar back) and records nothing: it returns func(var_params).
CustomOptimizer(tbl, fail) ==
    LET first == EnergyEstimation(tbl, tbl["initial_var_params"][1], fail) IN
    IF first.raised # "" THEN SimOut(first.tbl, first.raised, None, None)
    ELSE SimOut(first.tbl, "", first.value, None)

Truthy(ansatz) == ansatz.kind # "none"

\* The guard of line 130, "" when it lets the call through.
SimulateGuard(tbl) ==
    IF ~Truthy(tbl["ansatz"]) THEN "RuntimeError"
    ELSE IF ~HasAttr(tbl, "backend") THEN "AttributeError"
    ELSE ""

\* simulate() on table tbl (lines 127-132).
Simulate(tbl, x, fail) ==
    IF SimulateGuard(tbl) # "" THEN SimOut(tbl, SimulateGuard(tbl), None, None)
    ELSE IF tbl["optimizer"] = "_default_optimizer"
         THEN DefaultOptimizer(tbl, x, fail)
         ELSE CustomOptimizer(tbl, fail)

----------------------------------------------------------------------------
(* get_resources *)

\* Lines 139-146: reads only; an attribute that build() has not set is missing.
GetResources(tbl) ==
    IF ~HasAttr(tbl, "qubit_hamiltonian") \/ tbl["ansatz"].kind # "object"
       \/ tbl["ansatz"].circuit_builds = 0
    THEN EstOut(tbl, "AttributeError", None)
    ELSE EstOut(tbl, "", Some(Cardinality(DOMAIN tbl["qubit_hamiltonian"].terms)))

----------------------------------------------------------------------------
(* get_rdm *)

\* int(ele[0]) // 2 for each operator of the key (lines 201, 203).
OrbitalIndices(key) == [j \in 1..Len(key) |-> key[j][1] \div 2]

\* Lines 206-208: the copy of the Hamiltonian with the coefficients rewritten for
\* the term at position i (ikey = i - 1, enumerate counts from 0).
IsolateTerm(ham, i) ==
    [j \in 1..Len(ham) |->
        <<ham[j][1], IF ham[i][1] = ham[j][1] /\ (i - 1) # 0 THEN 1 ELSE 0>>]

\* Faulty variant: the lookup never matches.
NeverInLookup(terms, lookup_ham) == FALSE
\* Line 218: qubit_hamiltonian2.terms in lookup_ham
InLookup(terms, lookup_ham) == \E n \in 1..Len(lookup_ham) : lookup_ham[n] = terms

\* list.index: the first position holding the value
IndexOf(terms, lookup_ham) ==
    CHOOSE n \in 1..Len(lookup_ham) :
        /\ lookup_ham[n] = terms
        /\ \A m \in 1..(n - 1) : lookup_ham[m] # terms

\* Line 229
Accumulate1(rdm1, ix, e) == [rdm1 EXCEPT ![<<ix[1], ix[2]>>] = @ + e]

\* Faulty variant: the whole energy always lands at rdm2[i,l,j,k].
Accumulate2Unsplit(rdm2, ix, e) ==
    [rdm2 EXCEPT ![<<ix[1], ix[4], ix[2], ix[3]>>] = @ + e]
\* Lines 231-235, ix = <<iele, jele, kele, lele>>
Accumulate2(rdm2, ix, e) ==
    IF ix[1] # ix[4] \/ ix[2] # ix[3]
    THEN LET r1 == [rdm2 EXCEPT ![<<ix[4], ix[1], ix[3], ix[2]>>] = @ + Half(e)] IN
         [r1 EXCEPT ![<<ix[1], ix[4], ix[2], ix[3]>>] = @ + Half(e)]
    ELSE [rdm2 EXCEPT ![<<ix[1], ix[4], ix[2], ix[3]>>] = @ + e]

\* The loop state of a call that fails before line 187.
RdmStartless(tbl) ==
    [tbl |-> tbl, raised |-> "", tmp_hamiltonian |-> None,
     lookup_ham |-> <<>>, lookup_val |-> <<>>,
     rdm1 |-> <<>>, rdm2 |-> <<>>, log |-> <<>>, evals |-> <<>>]

\* Lines 183-191: the locals and the solver at loop entry.
RdmStart(tbl) ==
    LET n == tbl["qemist_molecule"].n_qubits \div 2
        O == 0..(n - 1)
    IN [tbl |-> tbl, raised |-> "", tmp_hamiltonian |-> Some(tbl["qubit_hamiltonian"]),
        lookup_ham |-> <<>>, lookup_val |-> <<>>,
        rdm1 |-> [ij \in O \X O |-> 0],
        rdm2 |-> [ijkl \in O \X O \X O \X O |-> 0],
        log |-> <<>>, evals |-> <<>>]

\* A collaborator's failure during one get_rdm call: none, the mapping raising
\* for the term at position n, or the backend raising in the n-th Energy
\* Estimator call.
NoFault == <<"none", 0>>
Faults == {NoFault} \cup ({"mapping", "backend"} \X (1..MaxTerms))

\* One iteration of the loop of lines 194-235 for the term at position i.
RdmTerm(st, i, p, fault) ==
    LET tbl == st.tbl
        ham == tbl["fermionic_hamiltonian"]
        key == ham[i][1]
        ix  == OrbitalIndices(key)
        hamiltonian_temp == IsolateTerm(ham, i)
    IN
    IF key = <<>> THEN st
    ELSE IF fault = <<"mapping", i>> THEN [st EXCEPT !.raised = "MappingError"]
    ELSE
    LET qh2 == Compress(fermion_to_qubit_mapping(hamiltonian_temp,
                    tbl["qubit_mapping"], tbl["qemist_molecule"].n_qubits,
                    tbl["qemist_molecule"].n_electrons, tbl["up_then_down"]))
        hit == InLookup(qh2.terms, st.lookup_ham)
        entry(cached, e) ==
            [ikey |-> i - 1, key |-> key, temp |-> hamiltonian_temp,
             terms |-> qh2.terms, cached |-> cached, energy |-> e]
        add(s, e) ==
            [s EXCEPT
               !.rdm1 = IF Len(key) = 2 THEN Accumulate1(@, ix, e) ELSE @,
               !.rdm2 = IF Len(key) = 4 THEN Accumulate2(@, ix, e) ELSE @,
               !.log = Append(@, entry(hit, e))]
    IN
    IF hit THEN add(st, st.lookup_val[IndexOf(qh2.terms, st.lookup_ham)])
    ELSE
    LET est == EnergyEstimation(SetAttr(tbl, "qubit_hamiltonian", qh2), p,
                                fault = <<"backend", Len(st.evals) + 1>>)
        s1 == [st EXCEPT !.tbl = est.tbl, !.evals = Append(@, qh2.terms)]
    IN IF est.raised # "" THEN [s1 EXCEPT !.raised = est.raised]
       ELSE add([s1 EXCEPT !.lookup_ham = Append(@, qh2.terms),
                           !.lookup_val = Append(@, est.value[1])],
                est.value[1])

RECURSIVE RdmLoop(_, _, _, _)
RdmLoop(st, i, p, fault) ==
    IF i > Len(st.tbl["fermionic_hamiltonian"]) \/ st.raised # "" THEN st
    ELSE RdmLoop(RdmTerm(st, i, p, fault), i + 1, p, fault)

\* Line 238, reached when the loop ends without an exception.
Restore(st) ==
    [st EXCEPT !.tbl = SetAttr(@, "qubit_hamiltonian", st.tmp_hamiltonian[1])]

\* get_rdm(var_params) on table tbl (lines 182-240).
GetRdm(tbl, p, fault) ==
    IF ~HasAttr(tbl, "qubit_hamiltonian") \/ tbl["ansatz"].kind # "object"
    THEN [RdmStartless(tbl) EXCEPT !.raised = "AttributeError"]
    ELSE
    LET st == RdmLoop(RdmStart(tbl), 1, p, fault)
    IN IF st.raised # "" THEN st ELSE Restore(st)

----------------------------------------------------------------------------
(* Actions *)

\* The caller writes an option dictionary.
MakeOptDict(d) ==
    /\ opt_dict' = d
    /\ ret' = NoRet
    /\ UNCHANGED <<solver, instance, rdm>>

\* VQESolver(opt_dict): the caller's dictionary is only read.
Construct ==
    \E r \in {InitResult(opt_dict, solver)} :
    /\ solver' = r.tbl
    /\ instance' = (r.raised = "")
    /\ ret' = Ret("__init__", r.raised, r.msg)
    /\ rdm' = NoRdm
    /\ UNCHANGED opt_dict

build ==
    /\ instance
    /\ solver["ansatz"].circuit_builds < MaxBuilds
    /\ \E r \in {BuildResult(solver)} :
       /\ solver' = r.tbl
       /\ ret' = [Ret("build", r.raised, r.msg) EXCEPT
                    !.requested = solver["ansatz"].name, !.checked = r.checked]
    /\ rdm' = NoRdm
    /\ UNCHANGED <<opt_dict, instance>>

energy_estimation(p, fail) ==
    /\ instance
    /\ \E r \in {EnergyEstimation(solver, p, fail)} :
       /\ solver' = r.tbl
       /\ ret' = [Ret("energy_estimation", r.raised, "") EXCEPT !.value = r.value]
    /\ rdm' = NoRdm
    /\ UNCHANGED <<opt_dict, instance>>

simulate(x, fail) ==
    /\ instance
    /\ \E r \in {Simulate(solver, x, fail)} :
       /\ solver' = r.tbl
       /\ ret' = [Ret("simulate", r.raised, "") EXCEPT
                    !.value = r.value, !.result_x = r.x]
    /\ rdm' = NoRdm
    /\ UNCHANGED <<opt_dict, instance>>

get_resources ==
    /\ instance
    /\ \E r \in {GetResources(solver)} :
       ret' = [Ret("get_resources", r.raised, "") EXCEPT !.value = r.value]
    /\ rdm' = NoRdm
    /\ UNCHANGED <<opt_dict, solver, instance>>

get_rdm(p, fault) ==
    /\ instance
    /\ \E st \in {GetRdm(solver, p, fault)} :
       /\ solver' = st.tbl
       /\ ret' = Ret("get_rdm", st.raised, "")
       /\ rdm' = [returned |-> st.raised = "",
                  tmp_hamiltonian |-> st.tmp_hamiltonian,
                  rdm1 |-> IF st.raised = "" THEN st.rdm1 ELSE <<>>,
                  rdm2 |-> IF st.raised = "" THEN st.rdm2 ELSE <<>>,
                  log |-> st.log, evals |-> st.evals]
    /\ UNCHANGED <<opt_dict, instance>>

----------------------------------------------------------------------------
(* Specifications *)

\* The option values a caller can pass, per option.
BackendOptionValues ==
    { [k \in {"target"} |-> "qiskit"],
      [k \in {"n_shots"} |-> "100"],
      [k \in {"target", "n_shots", "noise_model"} |->
          CASE k = "target" -> "qdk" [] k = "n_shots" -> "1000" [] k = "noise_model" -> "nm"] }

\* Construction alone: dictionaries of at most MaxOpts options, two of them unknown.
OptionPairs ==
    { <<"molecule", Some(MolH2)>>, <<"qubit_mapping", "bk">>,
      <<"ansatz", AnsatzEnum("UCC1")>>, <<"up_then_down", TRUE>>,
      <<"backend_options", [k \in {"target"} |-> "qiskit"]>>,
      <<"nonexistent_option", 1>>, <<"shots", 1>> }

OptDicts ==
    { d \in UNION { [1..n -> OptionPairs] : n \in 0..MaxOpts } :
        \A i, j \in 1..Len(d) : i # j => d[i][1] # d[j][1] }

InitInit ==
    /\ opt_dict = <<>>
    /\ solver = <<>>
    /\ instance = FALSE
    /\ ret = NoRet
    /\ rdm = NoRdm

NextInit == (\E d \in OptDicts : MakeOptDict(d)) \/ Construct

SpecInit == InitInit /\ [][NextInit]_vars

\* The lifecycle of a constructed solver: the configurations it is built from.
Config(mol, ansatz, mapping, utd, bo, optimizer) ==
    << <<"molecule", Some(mol)>>, <<"ansatz", ansatz>>, <<"qubit_mapping", mapping>>,
       <<"up_then_down", utd>>, <<"backend_options", bo>>, <<"optimizer", optimizer>> >>

LifecycleDicts ==
    { Config(mol, AnsatzEnum(a), m, utd, default_backend_options, "_default_optimizer") :
        mol \in {MolH2, MolHe}, a \in {"UCC1", "UCC3"}, m \in {"jw", "bk"},
        utd \in BOOLEAN }
    \cup { Config(MolH2, AnsatzEnum(a), "scbk2", TRUE, default_backend_options,
                  "_default_optimizer") : a \in {"UCCSD", "UCC1"} }
    \cup { Config(MolH2, a, "jw", FALSE, default_backend_options, "_default_optimizer") :
             a \in {AnsatzEnum("UCCSD"), AnsatzObject("custom", 1), AnsatzNone, AnsatzStr} }
    \cup { Config(MolH2, AnsatzEnum("UCCSD"), "jw", FALSE, bo, "_default_optimizer") :
             bo \in BackendOptionValues }
    \cup { Config(MolH2, AnsatzEnum("UCC3"), "jw", TRUE, bo, "_default_optimizer") :
             bo \in BackendOptionValues }
    \cup { Config(MolH2, AnsatzEnum("UCCSD"), "jw", FALSE, default_backend_options,
                  "custom") }

Constructed(d) ==
    /\ opt_dict = d
    /\ solver = InitResult(d, <<>>).tbl
    /\ instance = TRUE
    /\ ret = Ret("__init__", "", "")
    /\ rdm = NoRdm

Init == \E d \in LifecycleDicts : Constructed(d)

Next ==
    \/ build
    \/ \E p \in Params, fail \in BOOLEAN : energy_estimation(p, fail)
    \/ \E x \in Params, fail \in BOOLEAN : simulate(x, fail)
    \/ get_resources
    \/ \E p \in Params, fault \in Faults : get_rdm(p, fault)

Spec == Init /\ [][Next]_vars

\* RDM extraction on a built solver, over every Hamiltonian of at most MaxTerms
\* terms of TermKeys, in every iteration order.
RdmDicts ==
    { Config(Molecule("X", 4, 2, ks), AnsatzEnum("UCCSD"), "jw", FALSE,
             default_backend_options, "_default_optimizer") : ks \in KeySeqs }

InitRdm ==
    \E d \in RdmDicts :
        /\ opt_dict = d
        /\ solver = BuildResult(InitResult(d, <<>>).tbl).tbl
        /\ instance = TRUE
        /\ ret = [Ret("build", "", "") EXCEPT !.requested = "UCCSD"]
        /\ rdm = NoRdm

NextRdm ==
    \/ \E p \in Params, fail \in BOOLEAN : energy_estimation(p, fail)
    \/ \E p \in Params, fault \in Faults : get_rdm(p, fault)

SpecRdm == InitRdm /\ [][NextRdm]_vars

----------------------------------------------------------------------------
(* Properties *)

LastCall(op) == ret.op = op
Succeeded == ret.raised = ""

\* C1: after get_rdm(p) ends, by returning or by an error raised in the mapping
\* or in a per-term evaluation, the active qubit Hamiltonian is the one that was
\* active before the call (the one line 183 saved).
C1_RestoredOnEveryExit ==
    (LastCall("get_rdm") /\ rdm.tmp_hamiltonian # None)
        => solver["qubit_hamiltonian"] = rdm.tmp_hamiltonian[1]

\* C2: on a solver whose build() has never completed (the backend was never
\* created), simulate() and energy_estimation(p) end with a RuntimeError.
C2_UnbuiltRaisesRuntimeError ==
    ((LastCall("simulate") \/ LastCall("energy_estimation"))
        /\ ~HasAttr(solver, "backend"))
        => ret.raised = "RuntimeError"

NonEmptyKeys(ham) == SelectSeq([i \in 1..Len(ham) |-> ham[i][1]], LAMBDA k : k # <<>>)
LogKeys == [n \in 1..Len(rdm.log) |-> rdm.log[n].key]

\* C3: within one get_rdm call no compressed structure is evaluated twice; a term
\* whose structure was met before reuses the energy cached for it and causes no
\* evaluation; and when the call returns, the number of Energy Estimator
\* invocations is the number of distinct structures among the non-empty terms.
C3_OneEvaluationPerStructure ==
    LastCall("get_rdm") =>
        /\ \A a, b \in 1..Len(rdm.evals) : a # b => rdm.evals[a] # rdm.evals[b]
        /\ \A n \in 1..Len(rdm.log) :
              rdm.log[n].cached <=>
                 \E m \in 1..(n - 1) : rdm.log[m].terms = rdm.log[n].terms
        /\ \A n, m \in 1..Len(rdm.log) :
              rdm.log[m].terms = rdm.log[n].terms => rdm.log[m].energy = rdm.log[n].energy
        /\ rdm.returned =>
              /\ LogKeys = NonEmptyKeys(solver["fermionic_hamiltonian"])
              /\ Len(rdm.evals) =
                   Cardinality({ rdm.log[n].terms : n \in 1..Len(rdm.log) })

\* C3's case: two distinct terms with the same compressed structure, the second
\* served from the cache, in a call that returned.
C3_Witness ==
    /\ LastCall("get_rdm") /\ rdm.returned
    /\ \E m, n \in 1..Len(rdm.log) :
          /\ m < n /\ rdm.log[m].key # rdm.log[n].key
          /\ rdm.log[m].terms = rdm.log[n].terms /\ rdm.log[n].cached
          /\ rdm.log[n].terms # <<>>
    /\ Len(rdm.evals) < Len(rdm.log)

\* What one logged term adds at an index of rdm1 / rdm2, by the accumulation rule.
Contribution1(entry, ij) ==
    LET ix == OrbitalIndices(entry.key) IN
    IF Len(entry.key) = 2 /\ ij = <<ix[1], ix[2]>> THEN entry.energy ELSE 0
Contribution2(entry, ijkl) ==
    IF Len(entry.key) # 4 THEN 0
    ELSE LET ix == OrbitalIndices(entry.key)
             i == ix[1]  j == ix[2]  k == ix[3]  l == ix[4]
         IN IF i # l \/ j # k
            THEN (IF ijkl = <<l, i, k, j>> THEN Half(entry.energy) ELSE 0)
                 + (IF ijkl = <<i, l, j, k>> THEN Half(entry.energy) ELSE 0)
            ELSE (IF ijkl = <<i, l, j, k>> THEN entry.energy ELSE 0)

\* C4: the returned rdm1 and rdm2 are, entry by entry, the sum over all non-empty
\* terms of the term's contribution: e at rdm1[i,j] for a one-body term, half of e
\* at rdm2[l,i,k,j] and at rdm2[i,l,j,k] for a two-body term with i # l or j # k,
\* e once at rdm2[i,l,j,k] otherwise; the constant term adds nothing.
C4_AccumulationRule ==
    rdm.returned =>
        /\ LogKeys = NonEmptyKeys(solver["fermionic_hamiltonian"])
        /\ \A ij \in DOMAIN rdm.rdm1 :
              rdm.rdm1[ij] =
                 SumTo([n \in 1..Len(rdm.log) |-> Contribution1(rdm.log[n], ij)],
                       Len(rdm.log))
        /\ \A ijkl \in DOMAIN rdm.rdm2 :
              rdm.rdm2[ijkl] =
                 SumTo([n \in 1..Len(rdm.log) |-> Contribution2(rdm.log[n], ijkl)],
                       Len(rdm.log))

\* C4's case: a returned call that met a constant term, a one-body term, a split
\* two-body term and an unsplit one, each with a non-zero energy.
C4_Witness ==
    /\ rdm.returned
    /\ \E i \in 1..Len(solver["fermionic_hamiltonian"]) :
          solver["fermionic_hamiltonian"][i][1] = <<>>
    /\ \E n \in 1..Len(rdm.log) : Len(rdm.log[n].key) = 2 /\ rdm.log[n].energy # 0
    /\ \E n \in 1..Len(rdm.log) :
          /\ Len(rdm.log[n].key) = 4 /\ rdm.log[n].energy # 0
          /\ LET ix == OrbitalIndices(rdm.log[n].key) IN ix[1] # ix[4] \/ ix[2] # ix[3]

\* C4's other case: a two-body term with i = l and j = k, with a non-zero energy.
C4_WitnessUnsplit ==
    /\ rdm.returned
    /\ \E n \in 1..Len(rdm.log) :
          /\ Len(rdm.log[n].key) = 4 /\ rdm.log[n].energy # 0
          /\ LET ix == OrbitalIndices(rdm.log[n].key) IN ix[1] = ix[4] /\ ix[2] = ix[3]

\* The preconditions of the reduced ansatze, read off the solver.
ReducedPreconditionsHold ==
    /\ solver["qubit_mapping"] = "jw"
    /\ solver["up_then_down"]
    /\ HasAttr(solver, "qubit_hamiltonian")
    /\ count_qubits(solver["qubit_hamiltonian"]) = 4

\* C5: a build() that was asked for UCC1 or UCC3 fails with a configuration error
\* (ValueError) with the ansatz not instantiated, no circuit built and no backend
\* created when the mapping is not "jw", up_then_down is false or the qubit
\* Hamiltonian does not act on 4 qubits; and otherwise instantiates the ansatz
\* with 1 or 3 parameters.
C5_ReducedAnsatzValidation ==
    (LastCall("build") /\ ret.requested \in {"UCC1", "UCC3"}) =>
        IF ReducedPreconditionsHold
        THEN /\ solver["ansatz"].kind = "object"
             /\ solver["ansatz"].n_params = (IF ret.requested = "UCC1" THEN 1 ELSE 3)
        ELSE /\ ret.raised = "ValueError"
             /\ solver["ansatz"] = AnsatzEnum(ret.requested)
             /\ ~HasAttr(solver, "backend")

\* C5's case: UCC1 asked for with the "jw" mapping on 4 qubits but with
\* up_then_down false, and build() has run.
C5_Witness ==
    /\ LastCall("build") /\ ret.requested = "UCC1"
    /\ solver["qubit_mapping"] = "jw" /\ ~solver["up_then_down"]
    /\ count_qubits(solver["qubit_hamiltonian"]) = 4
    /\ ret.raised = "ValueError"

RecordedOptimum == <<solver["optimal_energy"], solver["optimal_var_params"]>>

\* C6 as stated: every successful simulate() leaves optimal_energy at the value
\* it returned and optimal_var_params set.
C6_EverySimulateRecords ==
    (LastCall("simulate") /\ Succeeded) =>
        /\ solver["optimal_energy"] = ret.value
        /\ solver["optimal_var_params"] # None

\* C6 as amended: optimal_energy and optimal_var_params are unset after
\* construction; a successful simulate() that runs the default optimizer sets
\* them to the optimizer's result (the energy being the value returned),
\* overwriting what an earlier call left; every other call, a failed simulate()
\* and a simulate() under a user-supplied optimizer that records nothing
\* included, leaves them as they were.
C6_DefaultOptimizerRecords ==
    /\ (LastCall("__init__") => RecordedOptimum = <<None, None>>)
    /\ [][IF ret'.op = "simulate" /\ ret'.raised = ""
             /\ solver["optimizer"] = "_default_optimizer"
          THEN /\ ret'.value # None
               /\ solver'["optimal_energy"] = ret'.value
               /\ solver'["optimal_var_params"] = ret'.result_x
          ELSE RecordedOptimum' = RecordedOptimum]_vars

\* C6's case: a second successful simulate() under the default optimizer has
\* overwritten the optimum recorded by the first.
C6_Witness ==
    /\ LastCall("simulate") /\ Succeeded
    /\ solver["optimizer"] = "_default_optimizer"
    /\ solver["optimal_var_params"] = Some(1)
    /\ solver["optimal_energy"] = ret.value
    /\ solver["ansatz"].circuit_builds = 1

\* C7: a build() that follows a successful build() succeeds, leaves the active
\* qubit Hamiltonian, the resolved ansatz, the initial variational parameters and
\* the mean-field as they were, applies the same compatibility checks, and the
\* ansatz circuit has still been built exactly once.
C7_BuildIdempotent ==
    [][(ret.op = "build" /\ ret.raised = "" /\ ret'.op = "build") =>
          /\ ret'.raised = ""
          /\ solver'["qubit_hamiltonian"] = solver["qubit_hamiltonian"]
          /\ solver'["ansatz"].name = solver["ansatz"].name
          /\ solver'["initial_var_params"] = solver["initial_var_params"]
          /\ solver'["mean_field"] = solver["mean_field"]
          /\ ret'.checked = ret.checked
          /\ solver'["ansatz"].circuit_builds = 1]_vars

DictKeys(d) == { d[i][1] : i \in 1..Len(d) }
DictValue(d, k) == d[CHOOSE i \in 1..Len(d) : d[i][1] = k][2]
FirstUnknownKey(d) ==
    d[CHOOSE i \in 1..Len(d) :
        /\ d[i][1] \notin DefaultKeys
        /\ \A j \in 1..(i - 1) : d[j][1] \in DefaultKeys][1]

\* C8: a construction from a dictionary holding an unknown key fails with a
\* KeyError naming the first such key and produces no solver, wherever the key
\* stands among the valid ones; no construction changes the caller's dictionary;
\* and a construction that succeeds, whatever was rejected before it, has every
\* option at the dictionary's value or else at its default.
C8_RejectsUnknownOptions ==
    /\ [](LastCall("__init__") =>
            IF DictKeys(opt_dict) \subseteq DefaultKeys
            THEN Succeeded =>
                   /\ instance
                   /\ \A k \in DefaultKeys :
                         solver[k] = IF k \in DictKeys(opt_dict)
                                     THEN DictValue(opt_dict, k)
                                     ELSE default_options[k]
            ELSE /\ ret.raised = "KeyError"
                 /\ ret.msg = FirstUnknownKey(opt_dict)
                 /\ ~instance)
    /\ [][ret'.op = "__init__" => opt_dict' = opt_dict]_vars

\* C8's case: a dictionary with a valid option before the unknown key was
\* rejected, after the valid option had been written into the discarded object.
C8_Witness ==
    /\ LastCall("__init__") /\ ret.raised = "KeyError" /\ ~instance
    /\ Len(opt_dict) = 2
    /\ opt_dict[1][1] = "qubit_mapping" /\ opt_dict[2][1] = "nonexistent_option"
    /\ solver["qubit_mapping"] = "bk"

\* C9: a build() that gets as far as creating the backend creates it from the
\* supplied backend_options, with the default for every key that is missing, and
\* does not fail.
C9_BackendOptionDefaults ==
    (LastCall("build") /\ ret.raised \notin {"ValueError", "TypeError"}) =>
        /\ Succeeded
        /\ HasAttr(solver, "backend")
        /\ \A k \in DOMAIN default_backend_options :
              solver["backend"][k] =
                 IF k \in DOMAIN solver["backend_options"]
                 THEN solver["backend_options"][k]
                 ELSE default_backend_options[k]

\* C10: for every non-empty term get_rdm processes, at whatever position, the
\* modified Hamiltonian built for it has coefficient 1 on that term and 0 on
\* every other; and the solver's own fermionic Hamiltonian stays the molecule's.
C10_TermIsolated ==
    LastCall("get_rdm") =>
        /\ \A n \in 1..Len(rdm.log) :
              \A j \in 1..Len(rdm.log[n].temp) :
                 rdm.log[n].temp[j][2] =
                    (IF rdm.log[n].temp[j][1] = rdm.log[n].key THEN 1 ELSE 0)
        /\ solver["fermionic_hamiltonian"] = solver["molecule"][1].hamiltonian

====
